---- MODULE Spec2Model ----
(***************************************************************************)
(* Model of the monthly sales report pipeline: extract.py (backup locator, *)
(* table exporter, month filter, get_monthly_data), config.py (the module  *)
(* attributes the other modules read) and report.py (the PDF sections).    *)
(***************************************************************************)
EXTENDS Integers, Sequences, FiniteSets, TLC

VARIABLES
    fs,             \* the filesystem under config.BACKUP_BASE_PATH
    tool,           \* the mdb-export utility: located or not, and what a run of it does
    call,           \* the function the caller invoked
    args,           \* the (year, month) the running call was given
    table_name,     \* the table export_table is asked for
    pc,             \* position of the running call
    backup_folder,  \* local of get_monthly_data / result of find_latest_backup
    mdb_file,       \* local of get_monthly_data
    df,             \* local of export_table / extract_*: the table being built
    invoices,       \* local of get_monthly_data
    sales,          \* local of get_monthly_data
    ret,            \* outcome of the running call: nothing yet, a value, or an exception
    effects,        \* the filesystem probes and process launches made so far, in order
    report_data,    \* the Report Data handed to the renderer
    elements        \* the flowables generate_pdf has collected so far

vars == <<fs, tool, call, args, table_name, pc, backup_folder, mdb_file, df,
          invoices, sales, ret, effects, report_data, elements>>

None == [kind |-> "none"]
\* a local that is not bound yet (a path or a table, once bound)
Unbound == << >>
Returned(v) == [kind |-> "return", value |-> v]
Raised(e) == [kind |-> "raise", exc |-> e]

(***************************************************************************)
(* Text.  A name is a sequence of one-character strings.                   *)
(***************************************************************************)
LowerCase == <<"a","b","c","d","e","f","g","h","i","j","k","l","m",
               "n","o","p","q","r","s","t","u","v","w","x","y","z">>
UpperCase == <<"A","B","C","D","E","F","G","H","I","J","K","L","M",
               "N","O","P","Q","R","S","T","U","V","W","X","Y","Z">>

\* str.upper(), one character
UpperChar(c) ==
    IF \E i \in DOMAIN LowerCase : LowerCase[i] = c
    THEN UpperCase[CHOOSE i \in DOMAIN LowerCase : LowerCase[i] = c]
    ELSE c

\* str.upper()
Upper(s) == [i \in DOMAIN s |-> UpperChar(s[i])]

\* str.startswith(prefix)
StartsWith(s, prefix) ==
    /\ Len(s) >= Len(prefix)
    /\ SubSeq(s, 1, Len(prefix)) = prefix

BACKUP == <<"B","A","C","K","U","P">>

(***************************************************************************)
(* The backup base directory.                                              *)
(***************************************************************************)
MaxMtime == 2

BACKUP_1 == <<"B","A","C","K","U","P","_","1">>
Backup2 == <<"B","a","c","k","u","p","2">>
OLDBACKUP == <<"O","L","D","B","A","C","K","U","P">>
BACKU == <<"B","A","C","K","U">>

NameUniverse == {BACKUP_1, Backup2, OLDBACKUP, BACKU}

\* An entry of the base directory: a plain file, or a directory that does or
\* does not hold the database file.
Absent == [kind |-> "absent"]
EntryStates ==
    {Absent} \cup [kind : {"dir", "file"}, mtime : 1..MaxMtime, mdb : {FALSE}]

\* every arrangement of the elements of S
RECURSIVE Perms(_)
Perms(S) ==
    IF S = {} THEN {<<>>}
    ELSE UNION {{<<x>> \o p : p \in Perms(S \ {x})} : x \in S}

Present(f) == {n \in DOMAIN f.entries : f.entries[n] # Absent}

\* Path.is_dir()
is_dir(f, n) == f.entries[n].kind = "dir"

\* the name test of the comprehension at extract.py:19
NameMatchesLower(n) == StartsWith(n, BACKUP)
NameMatches(n) == StartsWith(Upper(n), BACKUP)

\* the filter of the comprehension at extract.py:19
KeepsFiles(f, n) == NameMatches(n)
IsBackupFolder(f, n) == is_dir(f, n) /\ NameMatches(n)

\* [f for f in backup_path.iterdir() if ...]: the listing order is kept
backup_folders(f, order) == SelectSeq(order, LAMBDA n : IsBackupFolder(f, n))

\* max(seq, key): the first element whose key no later element exceeds
RECURSIVE MaxFrom(_, _, _, _)
MaxFrom(f, seq, i, best) ==
    IF i > Len(seq) THEN best
    ELSE IF f.entries[seq[i]].mtime > f.entries[best].mtime
         THEN MaxFrom(f, seq, i + 1, seq[i])
         ELSE MaxFrom(f, seq, i + 1, best)

FirstOf(f, seq) == seq[1]
MaxByMtime(f, seq) == MaxFrom(f, seq, 2, seq[1])

\* find_latest_backup(), as a function of the filesystem and the listing order
find_latest_backup(f, order) ==
    IF ~f.exists
    THEN Raised("FileNotFoundError")
    ELSE IF backup_folders(f, order) = <<>>
         THEN Raised("FileNotFoundError")
         ELSE Returned(MaxByMtime(f, backup_folders(f, order)))

(***************************************************************************)
(* Dates.  A DATE cell of an exported table is text: "a/b/y" (two numeric  *)
(* fields and a year) or text that is no date at all.                      *)
(***************************************************************************)
DateText(a, b, y) == [form |-> "a/b/y", a |-> a, b |-> b, y |-> y]
NotADate == [form |-> "text"]

NaT == [kind |-> "NaT"]
Timestamp(y, m, d) == [kind |-> "ts", year |-> y, month |-> m, day |-> d]

IsLeap(y) == (y % 4 = 0 /\ y % 100 # 0) \/ y % 400 = 0

DaysIn(m, y) ==
    IF m = 2 THEN (IF IsLeap(y) THEN 29 ELSE 28)
    ELSE IF m \in {4, 6, 9, 11} THEN 30 ELSE 31

IsDate(y, m, d) == m \in 1..12 /\ d \in 1..DaysIn(m, y)

\* One cell through pd.to_datetime(..., errors='coerce', dayfirst=True): the
\* first field is the day and the second the month; text that cannot be read
\* so is coerced to NaT.
ParseMonthFirst(cell) ==
    IF cell.form = "a/b/y" /\ IsDate(cell.y, cell.a, cell.b)
    THEN Timestamp(cell.y, cell.a, cell.b)
    ELSE NaT
ParseDayFirst(cell) ==
    IF cell.form = "a/b/y" /\ IsDate(cell.y, cell.b, cell.a)
    THEN Timestamp(cell.y, cell.b, cell.a)
    ELSE NaT

\* df['DATE'] = pd.to_datetime(df['DATE'], errors='coerce', dayfirst=True)
to_datetime(table) == [i \in DOMAIN table |-> [table[i] EXCEPT !.DATE = ParseDayFirst(@)]]

\* (df['DATE'].dt.year == year) & (df['DATE'].dt.month == month), one row:
\* the accessors of NaT are NaN, and NaN equals no number
MaskYearOnly(row, year, month) == row.DATE.kind = "ts" /\ row.DATE.year = year
MonthMask(row, year, month) ==
    row.DATE.kind = "ts" /\ row.DATE.year = year /\ row.DATE.month = month

\* df[mask]: the rows the mask keeps, in their order
MonthFilter(table, year, month) ==
    SelectSeq(to_datetime(table), LAMBDA row : MonthMask(row, year, month))

(***************************************************************************)
(* The export utility.  A run of it either never exits or exits with a     *)
(* status, having written its standard output: well-formed delimited text  *)
(* (a header row and the rows), nothing at all, rows of differing width,   *)
(* or bytes that are not UTF-8.                                            *)
(***************************************************************************)
Csv(rows) == [form |-> "csv", rows |-> rows]
Hangs == [ends |-> "never"]
Exits(code, out) == [ends |-> "exit", code |-> code, out |-> out]

\* subprocess.check_output(cmd), once the process was started and has exited
check_output_unchecked(run) == Returned(run.out)
check_output(run) ==
    IF run.code # 0 THEN Raised("CalledProcessError") ELSE Returned(run.out)

\* pd.read_csv(StringIO(output.decode('utf-8')))
read_csv(out) ==
    CASE out.form = "badutf8" -> Raised("UnicodeDecodeError")
      [] out.form = "empty"   -> Raised("EmptyDataError")
      [] out.form = "ragged"  -> Raised("ParserError")
      [] out.form = "csv"     -> Returned(out.rows)

\* export_table from the exit of the process on: lines 35 and 39-40
ExportResult(run) ==
    IF check_output(run).kind = "raise"
    THEN check_output(run)
    ELSE read_csv(check_output(run).value)

\* the except clause of export_table (lines 36-37)
ToolNotFoundUnwrapped == Raised("FileNotFoundError")
ToolNotFound == Raised("RuntimeError")

MDB_FILENAME == <<"r","e","s","t","u","r","a","n","t",".","m","d","b">>

\* backup_folder / config.MDB_FILENAME
JoinPath(folder, name) == <<folder, name>>

\* mdb_file.exists()
MdbNotChecked(f, path) == TRUE
MdbExists(f, path) == f.entries[path[1]].kind = "dir" /\ f.entries[path[1]].mdb

(***************************************************************************)
(* The inputs of extract.py.                                               *)
(***************************************************************************)
MaxRows == 3

Years == {2024, 2025}
Months == {2, 11}
Periods == [year : Years, month : Months]

DateTexts ==
    { DateText(1, 11, 2025),     \* 1 November 2025
      DateText(11, 2, 2025),     \* 11 February 2025
      DateText(29, 2, 2024),     \* 29 February 2024
      DateText(29, 2, 2025),     \* no such day
      DateText(11, 13, 2025),    \* no such month
      NotADate }

\* a table whose DATE column holds the given cells; rowid is the row's place
\* in the exported table
MkTable(cells) == [i \in DOMAIN cells |-> [rowid |-> i, DATE |-> cells[i]]]

Tables == {MkTable(c) : c \in UNION {[1..n -> DateTexts] : n \in 0..MaxRows}}

SampleTable == MkTable(<<DateText(1, 11, 2025), NotADate, DateText(29, 2, 2024)>>)

TableNames == {"INVOICE", "SALE"}

RunOutcomes ==
    { Exits(0, Csv(SampleTable)), Exits(0, Csv(<<>>)),
      Exits(0, [form |-> "empty"]), Exits(0, [form |-> "ragged"]),
      Exits(0, [form |-> "badutf8"]), Exits(1, Csv(SampleTable)), Hangs }

NoTool == [located |-> FALSE, run |-> [t \in TableNames |-> Hangs]]
Tools == {NoTool} \cup [located : {TRUE}, run : [TableNames -> RunOutcomes]]

NoFs == [exists |-> FALSE, entries |-> [n \in NameUniverse |-> Absent]]

\* base directories for find_latest_backup alone
LocatorFs == {NoFs} \cup [exists : {TRUE}, entries : [NameUniverse -> EntryStates]]

\* base directories for get_monthly_data: two candidate folders, each absent,
\* a plain file, or a directory with or without the database file
FolderStates ==
    {Absent} \cup [kind : {"dir"}, mtime : 1..MaxMtime, mdb : BOOLEAN]
             \cup {[kind |-> "file", mtime |-> 1, mdb |-> FALSE]}
PipelineFs ==
    {NoFs} \cup
    { [exists |-> TRUE,
       entries |-> [n \in NameUniverse |->
                      IF n = BACKUP_1 THEN a ELSE IF n = Backup2 THEN b ELSE Absent]]
      : a \in FolderStates, b \in FolderStates }

SomeMdb == JoinPath(BACKUP_1, MDB_FILENAME)

Idle ==
    /\ backup_folder = Unbound /\ mdb_file = Unbound /\ df = Unbound
    /\ invoices = Unbound /\ sales = Unbound /\ ret = None /\ effects = <<>>
    /\ report_data = None /\ elements = <<>>

InitLocator ==
    /\ call = "find_latest_backup" /\ pc = "locate"
    /\ fs \in LocatorFs /\ tool = NoTool
    /\ args = None /\ table_name = "" /\ Idle

InitExport ==
    /\ call = "export_table" /\ pc = "spawn"
    /\ fs = NoFs /\ tool \in Tools
    /\ args = None /\ table_name \in TableNames
    /\ backup_folder = Unbound /\ mdb_file = SomeMdb /\ df = Unbound
    /\ invoices = Unbound /\ sales = Unbound /\ ret = None /\ effects = <<>>
    /\ report_data = None /\ elements = <<>>

InitExtract ==
    /\ \/ call = "extract_invoices" /\ table_name = "INVOICE"
       \/ call = "extract_sales" /\ table_name = "SALE"
    /\ pc = "spawn"
    /\ fs = NoFs
    /\ \E t \in Tables :
         tool = [located |-> TRUE, run |-> [n \in TableNames |-> Exits(0, Csv(t))]]
    /\ args \in Periods
    /\ backup_folder = Unbound /\ mdb_file = SomeMdb /\ df = Unbound
    /\ invoices = Unbound /\ sales = Unbound /\ ret = None /\ effects = <<>>
    /\ report_data = None /\ elements = <<>>

InitPipeline ==
    /\ call = "get_monthly_data" /\ pc = "locate"
    /\ fs \in PipelineFs /\ tool \in Tools
    /\ args \in Periods /\ table_name = "" /\ Idle

Init == InitLocator \/ InitExport \/ InitExtract \/ InitPipeline

(***************************************************************************)
(* The steps of extract.py.                                                *)
(***************************************************************************)
Finish(r) == ret' = r /\ pc' = "done"

\* find_latest_backup(), called directly or as line 62 of get_monthly_data
FindLatestBackup ==
    /\ pc = "locate"
    /\ effects' = Append(effects, [op |-> "locate"])
    /\ \E order \in Perms(Present(fs)) :
         LET r == find_latest_backup(fs, order) IN
           IF call = "find_latest_backup" \/ r.kind = "raise"
           THEN Finish(r) /\ UNCHANGED backup_folder
           ELSE backup_folder' = r.value /\ pc' = "check_mdb" /\ UNCHANGED ret
    /\ UNCHANGED <<fs, tool, call, args, table_name, mdb_file, df, invoices,
                   sales, report_data, elements>>

\* get_monthly_data, lines 65-67
CheckMdb ==
    /\ pc = "check_mdb"
    /\ mdb_file' = JoinPath(backup_folder, MDB_FILENAME)
    /\ effects' = Append(effects, [op |-> "exists", file |-> mdb_file'])
    /\ IF ~MdbExists(fs, mdb_file')
       THEN Finish(Raised("FileNotFoundError")) /\ UNCHANGED table_name
       ELSE table_name' = "INVOICE" /\ pc' = "spawn" /\ UNCHANGED ret
    /\ UNCHANGED <<fs, tool, call, args, backup_folder, df, invoices, sales,
                   report_data, elements>>

\* export_table, lines 32-37: the process is started, or cannot be
SpawnExport ==
    /\ pc = "spawn"
    /\ effects' = Append(effects, [op |-> "spawn", file |-> mdb_file,
                                   table |-> table_name])
    /\ IF ~tool.located
       THEN Finish(ToolNotFound)
       ELSE pc' = "wait" /\ UNCHANGED ret
    /\ UNCHANGED <<fs, tool, call, args, table_name, backup_folder, mdb_file,
                   df, invoices, sales, report_data, elements>>

\* export_table, lines 35 and 39-40: check_output returns when the process
\* exits, and only then
ExportExits ==
    /\ pc = "wait"
    /\ tool.run[table_name].ends = "exit"
    /\ LET r == ExportResult(tool.run[table_name]) IN
         IF r.kind = "raise"
         THEN Finish(r) /\ UNCHANGED df
         ELSE /\ df' = r.value
              /\ IF call = "export_table"
                 THEN Finish(r)
                 ELSE pc' = "filter" /\ UNCHANGED ret
    /\ UNCHANGED <<fs, tool, call, args, table_name, backup_folder, mdb_file,
                   invoices, sales, effects, report_data, elements>>

\* extract_invoices, lines 45-48, and extract_sales, lines 53-55
FilterMonth ==
    /\ pc = "filter"
    /\ df' = MonthFilter(df, args.year, args.month)
    /\ effects' = Append(effects, [op |-> "filter", table |-> table_name,
                                   year |-> args.year, month |-> args.month])
    /\ IF table_name = "INVOICE"
       THEN /\ invoices' = df' /\ UNCHANGED sales
            /\ IF call = "extract_invoices"
               THEN Finish(Returned(df')) /\ UNCHANGED table_name
               ELSE table_name' = "SALE" /\ pc' = "spawn" /\ UNCHANGED ret
       ELSE /\ sales' = df' /\ UNCHANGED invoices
            /\ IF call = "extract_sales"
               THEN Finish(Returned(df'))
               ELSE pc' = "return" /\ UNCHANGED ret
            /\ UNCHANGED table_name
    /\ UNCHANGED <<fs, tool, call, args, backup_folder, mdb_file, report_data,
                   elements>>

\* get_monthly_data, lines 72-77
ReturnData ==
    /\ pc = "return"
    /\ Finish(Returned([invoices |-> invoices, sales |-> sales,
                        backup_folder |-> backup_folder]))
    /\ UNCHANGED <<fs, tool, call, args, table_name, backup_folder, mdb_file,
                   df, invoices, sales, effects, report_data, elements>>

Next ==
    \/ FindLatestBackup
    \/ CheckMdb
    \/ SpawnExport
    \/ ExportExits
    \/ FilterMonth
    \/ ReturnData

Spec == Init /\ [][Next]_vars

\* the interpreter runs the next statement whenever there is one
FairSpec == Spec /\ WF_vars(Next)

(***************************************************************************)
(* Properties of extract.py.                                               *)
(***************************************************************************)
\* what "starts with BACKUP, case-insensitively" means, letter by letter
PrefixLetters == <<{"B","b"}, {"A","a"}, {"C","c"}, {"K","k"}, {"U","u"}, {"P","p"}>>
HasBackupPrefix(n) ==
    /\ Len(n) >= Len(PrefixLetters)
    /\ \A i \in DOMAIN PrefixLetters : n[i] \in PrefixLetters[i]

\* the immediate subdirectories of the base directory whose name has the prefix
MatchingDirs(f) ==
    {n \in NameUniverse : f.entries[n].kind = "dir" /\ HasBackupPrefix(n)}

LocatorDone == call = "find_latest_backup" /\ pc = "done"

\* C1: when the base directory exists and has a matching subdirectory,
\* find_latest_backup returns one of the matching subdirectories, and no
\* matching subdirectory is strictly newer than it; files and directories
\* with another name are never returned, however new.
C1_ReturnsLatestMatching ==
    (LocatorDone /\ fs.exists /\ MatchingDirs(fs) # {}) =>
        /\ ret.kind = "return"
        /\ ret.value \in MatchingDirs(fs)
        /\ \A g \in MatchingDirs(fs) :
             fs.entries[g].mtime <= fs.entries[ret.value].mtime

\* two matching directories of different age, and a newer entry that is a
\* file or has another name
C1_Witness ==
    /\ LocatorDone /\ ret.kind = "return"
    /\ \E g \in MatchingDirs(fs) : fs.entries[g].mtime < fs.entries[ret.value].mtime
    /\ \E n \in Present(fs) \ MatchingDirs(fs) :
         fs.entries[n].mtime >= fs.entries[ret.value].mtime

\* C2: find_latest_backup raises FileNotFoundError exactly when the base
\* directory does not exist or has no matching subdirectory; otherwise it
\* returns a directory, and it raises nothing else.
C2_NotFoundExactly ==
    LocatorDone =>
        /\ ret.kind \in {"return", "raise"}
        /\ ret.kind = "raise" <=> (~fs.exists \/ MatchingDirs(fs) = {})
        /\ ret.kind = "raise" => ret.exc = "FileNotFoundError"
        /\ ret.kind = "return" => fs.entries[ret.value].kind = "dir"

\* the base directory holds a file with the prefix and a directory without
\* it, and nothing that matches
C2_Witness ==
    /\ LocatorDone /\ fs.exists /\ ret.kind = "raise"
    /\ \E n \in Present(fs) : fs.entries[n].kind = "file" /\ HasBackupPrefix(n)
    /\ \E n \in Present(fs) : fs.entries[n].kind = "dir" /\ ~HasBackupPrefix(n)

\* a DATE text read day first names a day of the given month of the given year
InPeriod(cell, period) ==
    /\ cell.form = "a/b/y"
    /\ cell.y = period.year /\ cell.b = period.month
    /\ cell.a >= 1 /\ cell.a <= DaysIn(cell.b, cell.y)

FilterDone == call \in {"extract_invoices", "extract_sales"} /\ pc = "done"
Exported == tool.run[table_name].out.rows

ToolMissingKinds == {"RuntimeError"}
ExportErrorKinds ==
    {"CalledProcessError", "EmptyDataError", "ParserError", "UnicodeDecodeError"}

ExportDone == call = "export_table" /\ pc = "done"

\* C4: export_table raises the tool-missing kind when mdb-export cannot be
\* located, and an export-error kind when the process exits non-zero or its
\* output is no table; it returns no table in these cases, and the
\* tool-missing kind is none of the export-error kinds.
C4_ExportFailures ==
    /\ ToolMissingKinds \cap ExportErrorKinds = {}
    /\ ExportDone =>
        /\ ~tool.located =>
             ret.kind = "raise" /\ ret.exc \in ToolMissingKinds
        /\ (tool.located /\ tool.run[table_name].code # 0) =>
             ret.kind = "raise" /\ ret.exc \in ExportErrorKinds
        /\ (tool.located /\ tool.run[table_name].code = 0
                         /\ tool.run[table_name].out.form # "csv") =>
             ret.kind = "raise" /\ ret.exc \in ExportErrorKinds

\* the process failed although what it wrote parses as a table
C4_Witness ==
    /\ ExportDone /\ tool.located
    /\ tool.run[table_name].code # 0
    /\ tool.run[table_name].out.form = "csv"
    /\ ret.kind = "raise"

\* C5: a call that waits for the export process always ends, even when the
\* process never exits.
C5_ExportTerminates == (pc = "wait") ~> (pc = "done")

PipelineRun == call = "get_monthly_data"

\* the probes and launches of a complete run of get_monthly_data, in order
StepOrder == <<"locate", "exists", "spawn", "filter", "spawn", "filter">>
StepTable == <<"", "", "INVOICE", "INVOICE", "SALE", "SALE">>

\* every step get_monthly_data depends on would succeed
AllStepsSucceed ==
    /\ fs.exists /\ MatchingDirs(fs) # {}
    /\ backup_folder \in MatchingDirs(fs) /\ fs.entries[backup_folder].mdb
    /\ tool.located
    /\ \A t \in TableNames :
         /\ tool.run[t].ends = "exit" /\ tool.run[t].code = 0
         /\ tool.run[t].out.form = "csv"

\* C6: get_monthly_data locates the backup once, then checks the database
\* file, then exports and filters INVOICE, then SALE; the export tool is
\* started only for the database file of the located backup, which exists;
\* both exports read that file and both filters use the call's year and
\* month; and the call returns data only if every step succeeded.
C6_PipelineOrder ==
    PipelineRun =>
        /\ Len(effects) <= Len(StepOrder)
        /\ \A i \in DOMAIN effects :
             /\ effects[i].op = StepOrder[i]
             /\ effects[i].op = "spawn" =>
                  /\ effects[i].table = StepTable[i]
                  /\ backup_folder \in MatchingDirs(fs)
                  /\ effects[i].file = <<backup_folder, MDB_FILENAME>>
                  /\ fs.entries[backup_folder].mdb
             /\ effects[i].op = "filter" =>
                  /\ effects[i].table = StepTable[i]
                  /\ effects[i].year = args.year
                  /\ effects[i].month = args.month
        /\ pc = "done" => (ret.kind = "return" <=> AllStepsSucceed)
        /\ pc = "done" => ret.kind \in {"return", "raise"}
        /\ (pc = "done" /\ ret.kind = "return") =>
             /\ Len(effects) = Len(StepOrder)
             /\ ret.value.backup_folder = backup_folder

\* a run that returned rows, with two backups to choose from
C6_Witness ==
    /\ PipelineRun /\ pc = "done" /\ ret.kind = "return"
    /\ Len(ret.value.invoices) > 0
    /\ Cardinality(MatchingDirs(fs)) = 2

(***************************************************************************)
(* config.py: the attributes the module defines.  Reading any other         *)
(* attribute of the module raises AttributeError.                          *)
(***************************************************************************)
ConfigAttributes ==
    { "SETTINGS_FILE", "CONFIG_FILE", "config", "BACKUP_BASE_PATH",
      "DAILY_REPORTS_PATH", "MONTHLY_REPORTS_PATH", "MDB_FILENAME",
      "RESTAURANT_NAME", "REPORT_TITLE", "EMAIL_FROM", "EMAIL_PASSWORD",
      "EMAIL_TO", "SMTP_SERVER", "SMTP_PORT" }

\* config.<name>
ConfigGet(name) ==
    IF name \in ConfigAttributes
    THEN Returned([attr |-> name])
    ELSE Raised("AttributeError")

(***************************************************************************)
(* report.py.  A flowable is a Paragraph, a Spacer or a Table; a table     *)
(* cell is a literal text or a number with the format it is printed in.    *)
(***************************************************************************)
Paragraph(text) == [type |-> "Paragraph", text |-> text]
Spacer == [type |-> "Spacer"]
Table(data) == [type |-> "Table", data |-> data]

Text(str) == [text |-> str]
Fmt(spec, v) == [fmt |-> spec, v |-> v]

\* exact quotients: a fraction in lowest terms with a positive denominator
Abs(n) == IF n < 0 THEN -n ELSE n

RECURSIVE Gcd(_, _)
Gcd(a, b) == IF b = 0 THEN a ELSE Gcd(b, a % b)

Ratio(n, d) ==
    LET g == Gcd(Abs(n), Abs(d))
        sg == IF d < 0 THEN -1 ELSE 1
    IN [num |-> (sg * n) \div g, den |-> (sg * d) \div g]

Zero == [num |-> 0, den |-> 1]
ZeroDivision == [error |-> "ZeroDivisionError"]

\* x / y * 100
PercentOf(x, y) == IF y = 0 THEN ZeroDivision ELSE Ratio(x * 100, y)

\* dict.get(key, default) on a mapping kept as its items in insertion order
Get(items, key, default) ==
    IF \E i \in DOMAIN items : items[i].key = key
    THEN items[CHOOSE i \in DOMAIN items : items[i].key = key].value
    ELSE default

\* create_header
create_header(rd) ==
    Returned(<< Paragraph(Text("TORNADO RESTAURANT")),
                Paragraph(Fmt("Sales Report - %B %Y", rd.period.start_date)),
                Spacer >>)

\* the condition and the arrow of create_summary_section, lines 79-81
GrowthAlways(rd) == "growth" \in DOMAIN rd
HasGrowth(rd) == "growth" \in DOMAIN rd /\ rd.growth # None

ArrowNonNegative(growth) == IF growth >= 0 THEN "up" ELSE "down"
Arrow(growth) == IF growth > 0 THEN "up" ELSE "down"

\* summary_data of create_summary_section
summary_data(rd) ==
    << <<Text("Total Revenue"), Fmt(",.2f", rd.invoices.total_revenue)>>,
       <<Text("Total Transactions"), Fmt(",", rd.invoices.total_transactions)>>,
       <<Text("Average Transaction"), Fmt(".2f", rd.invoices.average_transaction)>>,
       <<Text("Total VAT Collected"), Fmt(".2f", rd.invoices.total_vat)>> >>
    \o (IF HasGrowth(rd)
        THEN << <<Text("Growth vs Previous Month"),
                  [fmt |-> "+.1f%", v |-> rd.growth.v, arrow |-> Arrow(rd.growth.v)]>> >>
        ELSE << >>)

\* create_summary_section; `growth > 0` on None would be a TypeError
create_summary_section(rd) ==
    IF HasGrowth(rd) /\ rd.growth = None
    THEN Raised("TypeError")
    ELSE Returned(<< Paragraph(Text("EXECUTIVE SUMMARY")), Spacer,
                     Table(summary_data(rd)), Spacer >>)

\* percentage of create_payment_section (line 124) and of
\* create_service_section (line 170)
PercentageUnguarded(amount, total_amount) == PercentOf(amount, total_amount)
Percentage(amount, total_amount) ==
    IF total_amount > 0 THEN PercentOf(amount, total_amount) ELSE Zero

\* the loop of create_payment_section (lines 120-127) and of
\* create_service_section (lines 166-173): one row per item of amounts
BreakdownRows(breakdown, total_amount) ==
    [i \in DOMAIN breakdown.amounts |->
       << Text(breakdown.amounts[i].key),
          Fmt(",", Get(breakdown.counts, breakdown.amounts[i].key, 0)),
          Fmt(",.2f", breakdown.amounts[i].value),
          Fmt(".1f%", Percentage(breakdown.amounts[i].value, total_amount)) >>]

RaisesZeroDivision(rows, col) ==
    \E i \in DOMAIN rows : rows[i][col].v = ZeroDivision

PaymentHeader ==
    <<Text("Payment Method"), Text("Transactions"), Text("Amount"), Text("Percentage")>>
ServiceHeader ==
    <<Text("Service Type"), Text("Orders"), Text("Amount"), Text("Percentage")>>
ItemsHeader ==
    <<Text("Rank"), Text("Item"), Text("Qty Sold"), Text("Revenue"), Text("Profit")>>
CategoryHeader ==
    <<Text("Category"), Text("Items Sold"), Text("Revenue"), Text("Profit"), Text("Margin %")>>

\* create_payment_section
create_payment_section(rd) ==
    LET rows == BreakdownRows(rd.invoices.payment_breakdown, rd.invoices.total_revenue)
    IN IF RaisesZeroDivision(rows, 4)
       THEN Raised("ZeroDivisionError")
       ELSE Returned(<< Paragraph(Text("PAYMENT BREAKDOWN")), Spacer,
                        Table(<<PaymentHeader>> \o rows), Spacer >>)

\* create_service_section
create_service_section(rd) ==
    LET rows == BreakdownRows(rd.invoices.service_breakdown, rd.invoices.total_revenue)
    IN IF RaisesZeroDivision(rows, 4)
       THEN Raised("ZeroDivisionError")
       ELSE Returned(<< Paragraph(Text("SERVICE TYPE BREAKDOWN")), Spacer,
                        Table(<<ServiceHeader>> \o rows), Spacer >>)

\* create_top_items_section: the heading reads config.TOP_ITEMS_COUNT before
\* anything else is built
create_top_items_section(rd) ==
    IF ConfigGet("TOP_ITEMS_COUNT").kind = "raise"
    THEN ConfigGet("TOP_ITEMS_COUNT")
    ELSE Returned(
           << Paragraph(Fmt("TOP {} SELLING ITEMS", ConfigGet("TOP_ITEMS_COUNT").value)),
              Spacer,
              Table(<<ItemsHeader>> \o
                    [i \in DOMAIN rd.sales.top_items |->
                       << Fmt("str", i),
                          Text(rd.sales.top_items[i].ITEMS),
                          Fmt("int,", rd.sales.top_items[i].QTY),
                          Fmt(",.2f", rd.sales.top_items[i].AMOUNT),
                          Fmt(",.2f", rd.sales.top_items[i].PROFIT) >>]),
              Spacer >>)

\* margin of create_category_section, line 263
MarginUnguarded(cat) == PercentOf(cat.PROFIT, cat.AMOUNT)
Margin(cat) ==
    IF cat.AMOUNT > 0 THEN PercentOf(cat.PROFIT, cat.AMOUNT) ELSE Zero

\* the loop of create_category_section, lines 262-272
CategoryRows(cats) ==
    [i \in DOMAIN cats |->
       << Text(cats[i].CATOGERY),
          Fmt("int,", cats[i].QTY),
          Fmt(",.2f", cats[i].AMOUNT),
          Fmt(",.2f", cats[i].PROFIT),
          Fmt(".1f%", Margin(cats[i])) >>]

\* create_category_section
create_category_section(rd) ==
    LET rows == CategoryRows(rd.sales.category_performance)
    IN IF RaisesZeroDivision(rows, 5)
       THEN Raised("ZeroDivisionError")
       ELSE Returned(<< Paragraph(Text("CATEGORY PERFORMANCE")), Spacer,
                        Table(<<CategoryHeader>> \o rows), Spacer >>)

(***************************************************************************)
(* The inputs of report.py.                                                *)
(***************************************************************************)
MaxCats == 2

Num(v) == [kind |-> "num", v |-> v]
Item(k, v) == [key |-> k, value |-> v]

Totals == {0, 300, -300}

AmountMaps ==
    { << >>,
      << Item("CASH", 100) >>,
      << Item("CASH", 100), Item("CARD", 200) >>,
      << Item("CARD", 200), Item("CASH", 100) >>,
      << Item("CASH", 0) >> }

CountMaps ==
    { << >>, << Item("CASH", 1) >>, << Item("CARD", 2), Item("CASH", 1) >> }

Breakdowns == [amounts : AmountMaps, counts : CountMaps]
FewBreakdowns ==
    { [amounts |-> << >>, counts |-> << >>],
      [amounts |-> << Item("DINE_IN", 300) >>, counts |-> << Item("DINE_IN", 3) >>] }

Cat(name, qty, amount, profit) ==
    [CATOGERY |-> name, QTY |-> qty, AMOUNT |-> amount, PROFIT |-> profit]

Categories ==
    { Cat("FOOD", 5, 10, 3), Cat("DRINK", 2, 10, 0),
      Cat("MISC", 0, 0, 0), Cat("REFUND", 1, -10, -2) }

CategoryLists == UNION {[1..n -> Categories] : n \in 0..MaxCats}
FewCategoryLists == { << >>, << Cat("FOOD", 5, 10, 3) >> }

TopItemLists ==
    { << >>, << [ITEMS |-> "A", QTY |-> 5, AMOUNT |-> 500, PROFIT |-> 100] >> }

\* the growth entry: the key may be missing, or hold None or a number
NoKey == [kind |-> "missing"]
Growths == {NoKey, None, Num(-5), Num(0), Num(5)}

InvoiceMetrics(total, pay, svc) ==
    [ total_revenue |-> total,
      total_transactions |-> IF total = 0 THEN 0 ELSE 3,
      average_transaction |-> total \div 3,
      total_vat |-> total \div 10,
      payment_breakdown |-> pay,
      service_breakdown |-> svc ]

November == [start_date |-> [year |-> 2025, month |-> 11]]

ReportData(total, pay, svc, top, cats, growth) ==
    IF growth = NoKey
    THEN [ period |-> November,
           invoices |-> InvoiceMetrics(total, pay, svc),
           sales |-> [top_items |-> top, category_performance |-> cats] ]
    ELSE [ period |-> November,
           invoices |-> InvoiceMetrics(total, pay, svc),
           sales |-> [top_items |-> top, category_performance |-> cats],
           growth |-> growth ]

NoBreakdown == [amounts |-> << >>, counts |-> << >>]

RenderIdle ==
    /\ fs = NoFs /\ tool = NoTool /\ args = None /\ table_name = ""
    /\ backup_folder = Unbound /\ mdb_file = Unbound /\ df = Unbound
    /\ invoices = Unbound /\ sales = Unbound /\ ret = None /\ effects = <<>>
    /\ elements = <<>>

InitGeneratePdf ==
    /\ call = "generate_pdf" /\ pc = "header"
    /\ \E total \in Totals, pay \in Breakdowns, svc \in FewBreakdowns,
          top \in TopItemLists, cats \in FewCategoryLists, growth \in Growths :
         report_data = ReportData(total, pay, svc, top, cats, growth)

InitSection ==
    \/ /\ call = "create_header" /\ pc = "header"
       /\ report_data = ReportData(0, NoBreakdown, NoBreakdown, <<>>, <<>>, NoKey)
    \/ /\ call = "create_summary_section" /\ pc = "summary"
       /\ \E total \in Totals, growth \in Growths :
            report_data = ReportData(total, NoBreakdown, NoBreakdown, <<>>, <<>>, growth)
    \/ /\ call = "create_payment_section" /\ pc = "payment"
       /\ \E total \in Totals, pay \in Breakdowns :
            report_data = ReportData(total, pay, NoBreakdown, <<>>, <<>>, NoKey)
    \/ /\ call = "create_service_section" /\ pc = "service"
       /\ \E total \in Totals, svc \in Breakdowns :
            report_data = ReportData(total, NoBreakdown, svc, <<>>, <<>>, NoKey)
    \/ /\ call = "create_top_items_section" /\ pc = "top_items"
       /\ \E top \in TopItemLists :
            report_data = ReportData(0, NoBreakdown, NoBreakdown, top, <<>>, NoKey)
    \/ /\ call = "create_category_section" /\ pc = "category"
       /\ \E total \in Totals, cats \in CategoryLists :
            report_data = ReportData(total, NoBreakdown, NoBreakdown, <<>>, cats, NoKey)

RenderInit == RenderIdle /\ (InitGeneratePdf \/ InitSection)

(***************************************************************************)
(* The steps of report.py: each section function, called by generate_pdf   *)
(* (lines 335-340) or directly.                                            *)
(***************************************************************************)
\* One section is built: an exception leaves the caller; otherwise
\* generate_pdf extends its list and goes on, and after the last section
\* builds the document and returns (lines 343-350).
SectionStep(name, r, next) ==
    /\ pc = name
    /\ IF r.kind = "raise"
       THEN Finish(r) /\ UNCHANGED elements
       ELSE /\ elements' = elements \o r.value
            /\ IF call # "generate_pdf"
               THEN Finish(r)
               ELSE IF next = "build"
                    THEN Finish(Returned(elements'))
                    ELSE pc' = next /\ UNCHANGED ret
    /\ UNCHANGED <<fs, tool, call, args, table_name, backup_folder, mdb_file,
                   df, invoices, sales, effects, report_data>>

CreateHeader == SectionStep("header", create_header(report_data), "summary")
CreateSummary == SectionStep("summary", create_summary_section(report_data), "payment")
CreatePayment == SectionStep("payment", create_payment_section(report_data), "service")
CreateService == SectionStep("service", create_service_section(report_data), "top_items")
CreateTopItems == SectionStep("top_items", create_top_items_section(report_data), "category")
CreateCategory == SectionStep("category", create_category_section(report_data), "build")

RenderNext ==
    \/ CreateHeader
    \/ CreateSummary
    \/ CreatePayment
    \/ CreateService
    \/ CreateTopItems
    \/ CreateCategory

RenderSpec == RenderInit /\ [][RenderNext]_vars

(***************************************************************************)
(* Properties of report.py.                                                *)
(***************************************************************************)
\* the data of the tables collected so far whose first row is the given one
TablesWith(first) ==
    { elements[i].data : i \in { j \in DOMAIN elements :
                                   /\ elements[j].type = "Table"
                                   /\ elements[j].data[1] = first } }

\* the texts of the paragraphs of a list of flowables, in order
Headings(flowables) ==
    LET paras == SelectSeq(flowables, LAMBDA e : e.type = "Paragraph")
    IN [i \in DOMAIN paras |-> paras[i].text]

SixSections(flowables) ==
    /\ Len(Headings(flowables)) = 7
    /\ Headings(flowables)[1] = Text("TORNADO RESTAURANT")
    /\ Headings(flowables)[2] = Fmt("Sales Report - %B %Y", report_data.period.start_date)
    /\ Headings(flowables)[3] = Text("EXECUTIVE SUMMARY")
    /\ Headings(flowables)[4] = Text("PAYMENT BREAKDOWN")
    /\ Headings(flowables)[5] = Text("SERVICE TYPE BREAKDOWN")
    /\ "fmt" \in DOMAIN Headings(flowables)[6]
    /\ Headings(flowables)[6].fmt = "TOP {} SELLING ITEMS"
    /\ Headings(flowables)[7] = Text("CATEGORY PERFORMANCE")

PdfDone == call = "generate_pdf" /\ pc = "done"

EmptyReport(rd) ==
    /\ rd.invoices.total_revenue = 0
    /\ rd.invoices.payment_breakdown.amounts = << >>
    /\ rd.invoices.service_breakdown.amounts = << >>
    /\ rd.sales.top_items = << >>
    /\ rd.sales.category_performance = << >>

\* C7: generate_pdf on Report Data with zero revenue and empty breakdowns,
\* items and categories returns the document with every section, the
\* breakdown tables holding their header row and nothing else.
C7_EmptyReportRenders ==
    (PdfDone /\ EmptyReport(report_data)) =>
        /\ ret.kind = "return"
        /\ SixSections(ret.value)
        /\ \A h \in {PaymentHeader, ServiceHeader, ItemsHeader, CategoryHeader} :
             TablesWith(h) = { <<h>> }

\* the exact quotient q is x / y * 100
IsPercentOf(q, x, y) == q.den > 0 /\ q.num * y = x * 100 * q.den

\* the rows below the header are the rows of the breakdown, in its order
BreakdownTableOk(data, breakdown, total) ==
    /\ Len(data) = 1 + Len(breakdown.amounts)
    /\ \A i \in DOMAIN breakdown.amounts :
         /\ data[i + 1][1] = Text(breakdown.amounts[i].key)
         /\ data[i + 1][3].v = breakdown.amounts[i].value
         /\ IF total > 0
            THEN IsPercentOf(data[i + 1][4].v, breakdown.amounts[i].value, total)
            ELSE data[i + 1][4].v = Zero

PercentagesOk ==
    /\ \A d \in TablesWith(PaymentHeader) :
         BreakdownTableOk(d, report_data.invoices.payment_breakdown,
                          report_data.invoices.total_revenue)
    /\ \A d \in TablesWith(ServiceHeader) :
         BreakdownTableOk(d, report_data.invoices.service_breakdown,
                          report_data.invoices.total_revenue)

NoDivisionByZero ==
    /\ ret.kind = "raise" => ret.exc # "ZeroDivisionError"
    /\ (pc = "done" /\ call = "create_payment_section") => TablesWith(PaymentHeader) # {}
    /\ (pc = "done" /\ call = "create_service_section") => TablesWith(ServiceHeader) # {}
    /\ (pc = "done" /\ call = "create_category_section") => TablesWith(CategoryHeader) # {}

\* C8, as claimed: no ratio divides by zero; a breakdown row's percentage is
\* amount / total_revenue * 100 when total_revenue > 0 and 0 otherwise; a
\* category row's margin is profit / revenue * 100, and is 0 exactly when
\* the category's revenue is 0.
C8_MarginZeroOnlyAtZeroRevenue ==
    /\ NoDivisionByZero
    /\ PercentagesOk
    /\ \A d \in TablesWith(CategoryHeader) :
         /\ Len(d) = 1 + Len(report_data.sales.category_performance)
         /\ \A i \in DOMAIN report_data.sales.category_performance :
              LET cat == report_data.sales.category_performance[i] IN
                /\ cat.AMOUNT # 0 => IsPercentOf(d[i + 1][5].v, cat.PROFIT, cat.AMOUNT)
                /\ d[i + 1][5].v = Zero <=> cat.AMOUNT = 0

\* C8, amended: no ratio divides by zero; a breakdown row's percentage is
\* amount / total_revenue * 100 when total_revenue > 0 and 0 otherwise; a
\* category row's margin is profit / revenue * 100 when the category's
\* revenue is greater than 0, and 0 otherwise.
C8_RatiosGuarded ==
    /\ NoDivisionByZero
    /\ PercentagesOk
    /\ \A d \in TablesWith(CategoryHeader) :
         /\ Len(d) = 1 + Len(report_data.sales.category_performance)
         /\ \A i \in DOMAIN report_data.sales.category_performance :
              LET cat == report_data.sales.category_performance[i] IN
                IF cat.AMOUNT > 0
                THEN IsPercentOf(d[i + 1][5].v, cat.PROFIT, cat.AMOUNT)
                ELSE d[i + 1][5].v = Zero

\* a category table with a row of positive revenue and profit and a row of
\* zero revenue
C8_Witness ==
    /\ call = "create_category_section" /\ pc = "done" /\ ret.kind = "return"
    /\ \E d \in TablesWith(CategoryHeader) :
         /\ \E i \in 2..Len(d) : d[i][3].v > 0 /\ d[i][4].v > 0 /\ d[i][5].v # Zero
         /\ \E i \in 2..Len(d) : d[i][3].v = 0 /\ d[i][5].v = Zero

\* C9: generate_pdf returns the six sections once each, in the order header,
\* summary, payment, service, top items, category, for any Report Data; the
\* payment and service tables hold one row per key of the amounts mapping,
\* in its order, with a count of 0 for a key the counts mapping lacks.
C9_SixSectionsInOrder ==
    PdfDone =>
        /\ ret.kind = "return"
        /\ SixSections(ret.value)
        /\ \A d \in TablesWith(PaymentHeader) :
             /\ Len(d) = 1 + Len(report_data.invoices.payment_breakdown.amounts)
             /\ \A i \in DOMAIN report_data.invoices.payment_breakdown.amounts :
                  LET key == report_data.invoices.payment_breakdown.amounts[i].key IN
                    /\ d[i + 1][1] = Text(key)
                    /\ (\A j \in DOMAIN report_data.invoices.payment_breakdown.counts :
                          report_data.invoices.payment_breakdown.counts[j].key # key)
                       => d[i + 1][2].v = 0

SummaryTables == TablesWith(<<Text("Total Revenue"),
                              Fmt(",.2f", report_data.invoices.total_revenue)>>)

GrowthRows(data) ==
    { i \in DOMAIN data : data[i][1] = Text("Growth vs Previous Month") }

\* C10: the summary always holds the four base rows; it holds a growth row
\* exactly when Report Data has a growth entry that is not None; the row
\* carries the up arrow when growth > 0 and the down arrow otherwise.
C10_GrowthRow ==
    /\ (call = "create_summary_section" /\ pc = "done") =>
         ret.kind = "return" /\ SummaryTables # {}
    /\ \A d \in SummaryTables :
         /\ Len(d) >= 4
         /\ d[2][1] = Text("Total Transactions")
         /\ d[3][1] = Text("Average Transaction")
         /\ d[4][1] = Text("Total VAT Collected")
         /\ GrowthRows(d) # {} <=>
              ("growth" \in DOMAIN report_data /\ report_data.growth.kind = "num")
         /\ GrowthRows(d) \subseteq {5}
         /\ Len(d) = 4 + Cardinality(GrowthRows(d))
         /\ \A i \in GrowthRows(d) :
              /\ d[i][2].v = report_data.growth.v
              /\ d[i][2].arrow = (IF report_data.growth.v > 0 THEN "up" ELSE "down")

\* a growth of exactly 0 is shown, with the down arrow
C10_Witness ==
    /\ call = "create_summary_section" /\ pc = "done"
    /\ "growth" \in DOMAIN report_data /\ report_data.growth = Num(0)
    /\ \E d \in SummaryTables : \E i \in GrowthRows(d) : d[i][2].arrow = "down"

====
